---- MODULE Spec2Model ----
(***************************************************************************)
(* Model of configure.py, the configuration program for botan.             *)
(*                                                                         *)
(* Python strings are sequences of one-character strings, so that prefix   *)
(* matching, replacement, suffix tests and lexicographic order are         *)
(* computed and not assumed.  A dict is the sequence of its items in       *)
(* iteration order (keys distinct); the order is an input of the model     *)
(* because the program iterates dicts in whatever order they are stored.   *)
(***************************************************************************)
EXTENDS Integers, Sequences, FiniteSets, TLC

VARIABLES
    pc,              \* position of the run
    options,         \* the options object of main: compiler, os, cpu, arch
    platform,        \* what the host reports: machine, processor
    argv,            \* the command line as given: --cc, --os, --cpu
    archinfo,        \* dict of ArchInfo, as its values() in iteration order
    ccinfo,          \* dict of CompilerInfo, likewise
    osinfo,          \* dict of OsInfo, likewise
    modules,         \* dict of ModuleInfo, likewise
    modules_to_use,  \* the list choose_modules_to_use returned
    build_config,    \* the BuildConfigurationInformation object
    linked,          \* the list link_to() returned
    template_vars,   \* the dict create_template_vars returned
    stderr,          \* the diagnostics printed, in order
    files,           \* the metadata files on disk, in the order os.walk gives
    templates,       \* the template files on disk
    to_obj,          \* the object lex_me_harder fills
    expanded         \* the templates process_template has expanded

given == <<argv, platform, files, templates>>
loaded == <<archinfo, ccinfo, osinfo, modules>>
derived == <<modules_to_use, build_config, linked, template_vars>>
vars == <<pc, options, given, loaded, derived, stderr, to_obj, expanded>>

(***************************************************************************)
(* Bounds of the model                                                     *)
(***************************************************************************)
MaxArchs == 2
MaxModules == 2
MaxMachOpts == 2
MaxTokens == 4

(***************************************************************************)
(* Strings                                                                 *)
(***************************************************************************)
\* Python's None, distinct from every string
None == <<"None">>

\* ord() of the characters the model uses
Ord(c) ==
    CASE c = " " -> 32  [] c = "!" -> 33  [] c = "(" -> 40  [] c = ")" -> 41
      [] c = "*" -> 42  [] c = "," -> 44  [] c = "-" -> 45  [] c = "." -> 46
      [] c = "/" -> 47  [] c = "0" -> 48  [] c = "1" -> 49  [] c = "2" -> 50
      [] c = "3" -> 51  [] c = "4" -> 52  [] c = "5" -> 53  [] c = "6" -> 54
      [] c = "7" -> 55  [] c = "8" -> 56  [] c = "9" -> 57  [] c = "<" -> 60
      [] c = "=" -> 61  [] c = ">" -> 62  [] c = "P" -> 80  [] c = "S" -> 83
      [] c = "a" -> 97  [] c = "b" -> 98  [] c = "c" -> 99  [] c = "d" -> 100
      [] c = "e" -> 101  [] c = "f" -> 102  [] c = "g" -> 103  [] c = "h" -> 104
      [] c = "i" -> 105  [] c = "j" -> 106  [] c = "k" -> 107  [] c = "l" -> 108
      [] c = "m" -> 109  [] c = "n" -> 110  [] c = "o" -> 111  [] c = "p" -> 112
      [] c = "q" -> 113  [] c = "r" -> 114  [] c = "s" -> 115  [] c = "t" -> 116
      [] c = "u" -> 117  [] c = "v" -> 118  [] c = "w" -> 119  [] c = "x" -> 120
      [] c = "y" -> 121  [] c = "z" -> 122

\* str.lower() on one character
LowerChar(c) == CASE c = "P" -> "p" [] c = "L" -> "l" [] OTHER -> c

Lower(s) == [i \in 1..Len(s) |-> LowerChar(s[i])]

StartsWith(s, prefix) ==
    /\ Len(prefix) <= Len(s)
    /\ SubSeq(s, 1, Len(prefix)) = prefix

EndsWith(s, suffix) ==
    /\ Len(suffix) <= Len(s)
    /\ SubSeq(s, Len(s) - Len(suffix) + 1, Len(s)) = suffix

\* str.replace(old, new): every non-overlapping occurrence, left to right;
\* an empty old matches before every character and at the end
RECURSIVE Replace(_, _, _)
Replace(s, old, new) ==
    IF old = <<>>
    THEN IF s = <<>> THEN new
         ELSE new \o <<s[1]>> \o Replace(Tail(s), old, new)
    ELSE IF s = <<>> THEN <<>>
    ELSE IF StartsWith(s, old)
         THEN new \o Replace(SubSeq(s, Len(old) + 1, Len(s)), old, new)
         ELSE <<s[1]>> \o Replace(Tail(s), old, new)

\* list membership: x in l
InList(x, l) == \E i \in 1..Len(l) : l[i] = x

(***************************************************************************)
(* re.match(pattern, string) for patterns made of literal characters, '.'  *)
(* and a postfix '*': the pattern has to match at the start of the string, *)
(* not all of it.                                                          *)
(***************************************************************************)
ReCharMatch(p, c) == p = "." \/ p = c

RECURSIVE re_match(_, _)
re_match(pattern, string) ==
    IF pattern = <<>> THEN TRUE
    ELSE IF Len(pattern) >= 2 /\ pattern[2] = "*"
    THEN \/ re_match(SubSeq(pattern, 3, Len(pattern)), string)
         \/ /\ string # <<>>
            /\ ReCharMatch(pattern[1], string[1])
            /\ re_match(pattern, Tail(string))
    ELSE /\ string # <<>>
         /\ ReCharMatch(pattern[1], string[1])
         /\ re_match(Tail(pattern), Tail(string))

(***************************************************************************)
(* Processor matching                                                      *)
(***************************************************************************)
\* what a call gives back: a value, or the exception it raised
Returned(v) == [raised |-> FALSE, value |-> v]
Raised(kind, subject, choices) ==
    [raised |-> TRUE, kind |-> kind, subject |-> subject, choices |-> choices]

\* indexes of the items of a dict of patterns that match the string
MatchingAliases(ainfo, string) ==
    {j \in 1..Len(ainfo.submodel_aliases) :
        re_match(ainfo.submodel_aliases[j][1], string)}

MatchingSubmodels(ainfo, string) ==
    {j \in 1..Len(ainfo.submodels) : re_match(ainfo.submodels[j], string)}

Min(S) == CHOOSE x \in S : \A y \in S : x <= y

\* the two pattern loops both routines share: the first submodel alias in
\* iteration order that matches, then the first submodel that matches
SubmodelFor(ainfo, string) ==
    IF MatchingAliases(ainfo, string) # {}
    THEN <<ainfo.submodel_aliases[Min(MatchingAliases(ainfo, string))][2]>>
    ELSE IF MatchingSubmodels(ainfo, string) # {}
    THEN <<ainfo.submodels[Min(MatchingSubmodels(ainfo, string))]>>
    ELSE <<>>

\* canon_processor without the test of the alias list
RECURSIVE canon_processor_from_NoAliases(_, _, _)
canon_processor_from_NoAliases(i, ainfos, proc) ==
    IF i > Len(ainfos)
    THEN Raised("Unknown or unidentifiable processor", proc, <<>>)
    ELSE IF ainfos[i].basename = proc
    THEN Returned(<<ainfos[i].basename, ainfos[i].basename>>)
    ELSE IF SubmodelFor(ainfos[i], proc) # <<>>
    THEN Returned(<<ainfos[i].basename, SubmodelFor(ainfos[i], proc)[1]>>)
    ELSE canon_processor_from_NoAliases(i + 1, ainfos, proc)

RECURSIVE canon_processor_from(_, _, _)
canon_processor_from(i, ainfos, proc) ==
    IF i > Len(ainfos)
    THEN Raised("Unknown or unidentifiable processor", proc, <<>>)
    ELSE IF ainfos[i].basename = proc \/ InList(proc, ainfos[i].aliases)
    THEN Returned(<<ainfos[i].basename, ainfos[i].basename>>)
    ELSE IF SubmodelFor(ainfos[i], proc) # <<>>
    THEN Returned(<<ainfos[i].basename, SubmodelFor(ainfos[i], proc)[1]>>)
    ELSE canon_processor_from(i + 1, ainfos, proc)

canon_processor(ainfos, proc) == canon_processor_from(1, ainfos, proc)

\* platform.processor() with spaces removed, lowercased, (tm) and (r) removed
NormalizedProcessor(full_proc) ==
    Replace(Replace(Lower(Replace(full_proc, <<" ">>, <<>>)),
                    <<"(", "t", "m", ")">>, <<>>),
            <<"(", "r", ")">>, <<>>)

\* guess_processor without the assignment of the canonical name to base_proc
RECURSIVE guess_processor_from_KeepsRaw(_, _, _, _)
guess_processor_from_KeepsRaw(i, ainfos, base_proc, full_proc) ==
    IF i > Len(ainfos)
    THEN Returned(<<base_proc, base_proc>>)
    ELSE IF ainfos[i].basename = base_proc \/ InList(base_proc, ainfos[i].aliases)
    THEN IF SubmodelFor(ainfos[i], full_proc) # <<>>
         THEN Returned(<<base_proc, SubmodelFor(ainfos[i], full_proc)[1]>>)
         ELSE guess_processor_from_KeepsRaw(i + 1, ainfos, base_proc, full_proc)
    ELSE guess_processor_from_KeepsRaw(i + 1, ainfos, base_proc, full_proc)

RECURSIVE guess_processor_from(_, _, _, _)
guess_processor_from(i, ainfos, base_proc, full_proc) ==
    IF i > Len(ainfos)
    THEN Returned(<<base_proc, base_proc>>)
    ELSE IF ainfos[i].basename = base_proc \/ InList(base_proc, ainfos[i].aliases)
    THEN IF SubmodelFor(ainfos[i], full_proc) # <<>>
         THEN Returned(<<ainfos[i].basename, SubmodelFor(ainfos[i], full_proc)[1]>>)
         ELSE guess_processor_from(i + 1, ainfos, ainfos[i].basename, full_proc)
    ELSE guess_processor_from(i + 1, ainfos, base_proc, full_proc)

guess_processor(ainfos, host) ==
    guess_processor_from(1, ainfos, host.machine, NormalizedProcessor(host.processor))

(***************************************************************************)
(* main, lines 639-642: resolve the processor                              *)
(***************************************************************************)
\* an exception leaves main and the handler at the bottom of the file
\* prints it: one line on stderr, and the run is over
Abort_ReportsTwice(exc) ==
    /\ stderr' = stderr \o <<exc, exc>>
    /\ pc' = "aborted"

\* an exception leaves main; the handler at the bottom of the script prints it
Abort(exc) ==
    /\ stderr' = Append(stderr, exc)
    /\ pc' = "aborted"

GuessProcessor ==
    /\ pc = "resolve"
    /\ options.cpu = None
    /\ options' = [options EXCEPT
                     !.arch = guess_processor(archinfo, platform).value[1],
                     !.cpu = guess_processor(archinfo, platform).value[2]]
    /\ pc' = "choose"
    /\ UNCHANGED <<given, to_obj, expanded, loaded, derived, stderr>>

CanonProcessor ==
    /\ pc = "resolve"
    /\ options.cpu # None
    /\ IF canon_processor(archinfo, options.cpu).raised
       THEN /\ Abort(canon_processor(archinfo, options.cpu))
            /\ UNCHANGED options
       ELSE /\ options' = [options EXCEPT
                             !.arch = canon_processor(archinfo, options.cpu).value[1],
                             !.cpu = canon_processor(archinfo, options.cpu).value[2]]
            /\ pc' = "choose"
            /\ UNCHANGED stderr
    /\ UNCHANGED <<given, to_obj, expanded, loaded, derived>>

(***************************************************************************)
(* Inputs of the processor resolution                                      *)
(***************************************************************************)
ArchI ==
    [basename |-> <<"i">>, aliases |-> << <<"x">> >>,
     submodels |-> << <<"p">>, <<"p", "4">>, <<"k">> >>,
     submodel_aliases |-> << << <<"c", ".", "*">>, <<"p", "4">> >>,
                             << <<"c", "2">>, <<"k">> >> >>]
ArchA ==
    [basename |-> <<"a">>, aliases |-> << <<"i">>, <<"m">> >>,
     submodels |-> << <<"a", "7">> >>,
     submodel_aliases |-> << << <<"a", "7", ".", "*">>, <<"a", "7">> >> >>]
ArchK ==
    [basename |-> <<"k">>, aliases |-> <<>>,
     submodels |-> << <<"k">>, <<"p", ".", "*">> >>,
     submodel_aliases |-> <<>>]
ArchP ==
    [basename |-> <<"p">>, aliases |-> << <<"a">> >>,
     submodels |-> <<>>,
     submodel_aliases |-> << << <<"c", "2">>, <<"c">> >> >>]

ArchPool == {ArchI, ArchA, ArchK, ArchP}

\* the dicts of at most n entries over a pool of records, keyed by basename,
\* in every iteration order
DictsOver(pool, n) ==
    {d \in UNION {[1..len -> pool] : len \in 0..n} :
        \A i, j \in 1..Len(d) : i # j => d[i].basename # d[j].basename}

CpuPool ==
    { <<"i">>, <<"x">>, <<"a">>, <<"m">>, <<"p">>, <<"p", "4">>, <<"p", "4", "x">>,
      <<"c", "2">>, <<"a", "7">>, <<"a", "7", "a">>, <<"k">>, <<"q">>, <<>> }

MachinePool == { <<"i">>, <<"x">>, <<"m">>, <<"q">> }

ProcessorPool ==
    { <<"P", "4">>, <<"p", " ", "4">>, <<"p", "(", "r", ")", "4">>,
      <<"c", "2">>, <<"a", "7", "(", "t", "m", ")">>, <<"q">>, <<>> }

NothingDerived ==
    /\ to_obj = None
    /\ expanded = {}
    /\ modules_to_use = <<>>
    /\ build_config = [headers |-> <<>>, sources |-> <<>>]
    /\ linked = <<>>
    /\ template_vars = <<>>

NoOptions == [compiler |-> None, os |-> None, cpu |-> None, arch |-> None]
NoPlatform == [machine |-> <<>>, processor |-> <<>>]

InitResolve ==
    /\ pc = "resolve"
    /\ archinfo \in DictsOver(ArchPool, MaxArchs)
    /\ \/ /\ argv \in [compiler : {None}, os : {None}, cpu : CpuPool]
          /\ platform = NoPlatform
       \/ /\ argv = [compiler |-> None, os |-> None, cpu |-> None]
          /\ platform \in [machine : MachinePool, processor : ProcessorPool]
    /\ options = [compiler |-> argv.compiler, os |-> argv.os,
                  cpu |-> argv.cpu, arch |-> None]
    /\ ccinfo = <<>> /\ osinfo = <<>> /\ modules = <<>>
    /\ files = <<>> /\ templates = <<>>
    /\ NothingDerived
    /\ stderr = <<>>

NextResolve == GuessProcessor \/ CanonProcessor

SpecResolve == InitResolve /\ [][NextResolve]_vars

(***************************************************************************)
(* Properties of the processor resolution                                  *)
(***************************************************************************)
NameMatch(ainfo, name) ==
    ainfo.basename = name \/ \E k \in DOMAIN ainfo.aliases : ainfo.aliases[k] = name

\* j is the first item of the submodel-alias dict whose pattern matches
FirstAlias(ainfo, name, j) ==
    /\ j \in DOMAIN ainfo.submodel_aliases
    /\ re_match(ainfo.submodel_aliases[j][1], name)
    /\ \A k \in 1..(j - 1) : ~re_match(ainfo.submodel_aliases[k][1], name)

\* j is the first entry of the submodels list whose pattern matches
FirstSubmodel(ainfo, name, j) ==
    /\ j \in DOMAIN ainfo.submodels
    /\ re_match(ainfo.submodels[j], name)
    /\ \A k \in 1..(j - 1) : ~re_match(ainfo.submodels[k], name)

AliasMatch(ainfo, name) == \E j \in DOMAIN ainfo.submodel_aliases : FirstAlias(ainfo, name, j)
SubmodelMatch(ainfo, name) == \E j \in DOMAIN ainfo.submodels : FirstSubmodel(ainfo, name, j)

AnyMatch(ainfo, name) ==
    NameMatch(ainfo, name) \/ AliasMatch(ainfo, name) \/ SubmodelMatch(ainfo, name)

\* the architecture a user-supplied processor was resolved from is the first
\* one in iteration order with any match
CanonFrom(i) ==
    /\ i \in DOMAIN archinfo
    /\ AnyMatch(archinfo[i], argv.cpu)
    /\ \A k \in 1..(i - 1) : ~AnyMatch(archinfo[k], argv.cpu)
    /\ options.arch = archinfo[i].basename

CanonDone == pc = "choose" /\ argv.cpu # None

\* the second component under the three rules; the third rule's result is
\* a parameter: the pattern that matched, or the name that was requested
CanonRules(ainfo, bySubmodel(_, _)) ==
    IF NameMatch(ainfo, argv.cpu)
    THEN options.cpu = ainfo.basename
    ELSE IF AliasMatch(ainfo, argv.cpu)
    THEN \E j \in DOMAIN ainfo.submodel_aliases :
            /\ FirstAlias(ainfo, argv.cpu, j)
            /\ options.cpu = ainfo.submodel_aliases[j][2]
    ELSE \E j \in DOMAIN ainfo.submodels :
            /\ FirstSubmodel(ainfo, argv.cpu, j)
            /\ options.cpu = bySubmodel(ainfo, j)

MatchedPattern(ainfo, j) == ainfo.submodels[j]
RequestedName(ainfo, j) == argv.cpu

\* C1 as stated: a processor resolved by canon_processor comes from the first
\* architecture in iteration order with any match; the second component is
\* the canonical name for a name or alias match, else the submodel the first
\* matching submodel-alias pattern maps to, else the name that was requested.
C1_Original ==
    CanonDone => \E i \in DOMAIN archinfo :
                    CanonFrom(i) /\ CanonRules(archinfo[i], RequestedName)

\* C1 amended: as C1, but under the third rule the second component is the
\* first entry of the submodels list that matches the requested name (the
\* pattern itself), not the requested name.
C1_CanonProcessor ==
    CanonDone => \E i \in DOMAIN archinfo :
                    CanonFrom(i) /\ CanonRules(archinfo[i], MatchedPattern)

\* a second architecture resolved the name by a submodel pattern that is a
\* proper prefix of the name
C1_Witness ==
    /\ CanonDone
    /\ options.arch = archinfo[Len(archinfo)].basename
    /\ Len(archinfo) = 2
    /\ ~NameMatch(archinfo[2], argv.cpu)
    /\ ~AliasMatch(archinfo[2], argv.cpu)
    /\ SubmodelMatch(archinfo[2], argv.cpu)
    /\ ~AnyMatch(archinfo[1], argv.cpu)
    /\ options.cpu # argv.cpu

GuessDone == pc = "choose" /\ argv.cpu = None

NoPatternMatch ==
    \A i \in DOMAIN archinfo :
        /\ ~AliasMatch(archinfo[i], NormalizedProcessor(platform.processor))
        /\ ~SubmodelMatch(archinfo[i], NormalizedProcessor(platform.processor))

MachineKnown == \E i \in DOMAIN archinfo : NameMatch(archinfo[i], platform.machine)

\* C6 as stated: when no submodel-alias pattern and no submodel pattern
\* matches, guess_processor returns the raw machine string in both components.
C6_Original ==
    (GuessDone /\ NoPatternMatch) =>
        options.arch = platform.machine /\ options.cpu = platform.machine

\* C6 amended: when no pattern matches, guess_processor returns without error
\* and both components are the same string: the raw machine string when no
\* architecture has it as canonical name or alias, and otherwise the
\* canonical name of a loaded architecture.
C6_GuessProcessor ==
    /\ pc = "resolve" /\ argv.cpu = None => ~guess_processor(archinfo, platform).raised
    /\ (GuessDone /\ NoPatternMatch) =>
          /\ options.arch = options.cpu
          /\ IF MachineKnown
             THEN \E i \in DOMAIN archinfo : options.arch = archinfo[i].basename
             ELSE options.arch = platform.machine

\* the machine string is only an alias and came back as the canonical name
C6_Witness ==
    /\ GuessDone /\ NoPatternMatch /\ MachineKnown
    /\ \A i \in DOMAIN archinfo : archinfo[i].basename # platform.machine
    /\ options.arch # platform.machine

\* the machine string is unknown to every architecture and came back raw
C6_WitnessRaw ==
    /\ GuessDone /\ NoPatternMatch /\ ~MachineKnown /\ archinfo # <<>>
    /\ options.arch = platform.machine

(***************************************************************************)
(* Lists, sets and dicts of strings                                        *)
(***************************************************************************)
\* a < b on Python strings: lexicographic by character code
StrLess(a, b) ==
    \E i \in 1..(Len(a) + 1) :
        /\ i <= Len(b)
        /\ \A k \in 1..(i - 1) : a[k] = b[k]
        /\ i > Len(a) \/ Ord(a[i]) < Ord(b[i])

SetOf(l) == {l[i] : i \in DOMAIN l}

RECURSIVE SortedInsert(_, _)
SortedInsert(x, l) ==
    IF l = <<>> THEN <<x>>
    ELSE IF StrLess(x, l[1]) THEN <<x>> \o l
    ELSE <<l[1]>> \o SortedInsert(x, Tail(l))

\* sorted(l) of a list of strings: duplicates are kept
RECURSIVE sorted(_)
sorted(l) == IF l = <<>> THEN <<>> ELSE SortedInsert(l[1], sorted(Tail(l)))

\* sorted(s) of a set of strings
RECURSIVE sorted_set(_)
sorted_set(S) ==
    IF S = {} THEN <<>>
    ELSE LET least == CHOOSE x \in S : \A y \in S : x = y \/ StrLess(x, y)
         IN <<least>> \o sorted_set(S \ {least})

\* sum(lists, [])
RECURSIVE Concat(_)
Concat(lists) == IF lists = <<>> THEN <<>> ELSE lists[1] \o Concat(Tail(lists))

\* sep.join(list)
RECURSIVE Join(_, _)
Join(sep, l) ==
    IF l = <<>> THEN <<>>
    ELSE IF Len(l) = 1 THEN l[1]
    ELSE l[1] \o sep \o Join(sep, Tail(l))

\* s.split(c) for a one-character separator
RECURSIVE Split(_, _)
Split(s, c) ==
    IF \A i \in DOMAIN s : s[i] # c THEN <<s>>
    ELSE LET at == Min({i \in DOMAIN s : s[i] = c})
         IN <<SubSeq(s, 1, at - 1)>> \o Split(SubSeq(s, at + 1, Len(s)), c)

\* a dict of strings is the sequence of its (key, value) items
DictHas(d, key) == \E i \in DOMAIN d : d[i][1] = key
DictGet(d, key) == d[CHOOSE i \in DOMAIN d : d[i][1] = key][2]

\* a dict of info objects is the sequence of its values, keyed by basename
InfoHas(infos, name) == \E i \in DOMAIN infos : infos[i].basename = name
InfoGet(infos, name) == infos[CHOOSE i \in DOMAIN infos : infos[i].basename = name]

\* sorted(d.keys()) of a dict of info objects
SortedKeys(infos) == sorted_set({infos[i].basename : i \in DOMAIN infos})

\* dict(zip(l[::3], l[2::3])): the items in order of first insertion, a
\* later value for the same key replacing the earlier one
RECURSIVE DictPut(_, _, _)
DictPut(d, key, value) ==
    IF d = <<>> THEN << <<key, value>> >>
    ELSE IF d[1][1] = key THEN << <<key, value>> >> \o Tail(d)
    ELSE <<d[1]>> \o DictPut(Tail(d), key, value)

RECURSIVE force_to_dict(_)
force_to_dict(l) ==
    IF Len(l) < 3 THEN <<>>
    ELSE LET n == Len(l) \div 3
         IN DictPut(force_to_dict(SubSeq(l, 1, 3 * (n - 1))),
                    l[3 * n - 2], l[3 * n])

\* os.path.join(a, b)
os_path_join(a, b) ==
    IF StartsWith(b, <<"/">>) THEN b
    ELSE IF a = <<>> \/ EndsWith(a, <<"/">>) THEN a \o b
    ELSE a \o <<"/">> \o b

(***************************************************************************)
(* choose_modules_to_use                                                   *)
(***************************************************************************)
\* the architecture test without the submodel
ModuleEliminated_NoSubmodel(opts, module) ==
    \/ module.cc # <<>> /\ ~InList(opts.compiler, module.cc)
    \/ module.os # <<>> /\ ~InList(opts.os, module.os)
    \/ module.arch # <<>> /\ ~InList(opts.arch, module.arch)

\* the compiler test without the test for an empty list
ModuleEliminated_EmptyRejects(opts, module) ==
    \/ ~InList(opts.compiler, module.cc)
    \/ module.os # <<>> /\ ~InList(opts.os, module.os)
    \/ module.arch # <<>> /\ ~InList(opts.arch, module.arch)
                          /\ ~InList(opts.cpu, module.arch)

ModuleEliminated(opts, module) ==
    \/ module.cc # <<>> /\ ~InList(opts.compiler, module.cc)
    \/ module.os # <<>> /\ ~InList(opts.os, module.os)
    \/ module.arch # <<>> /\ ~InList(opts.arch, module.arch)
                          /\ ~InList(opts.cpu, module.arch)

RECURSIVE choose_modules_to_use(_, _)
choose_modules_to_use(opts, mods) ==
    IF mods = <<>> THEN <<>>
    ELSE IF ModuleEliminated(opts, mods[1])
    THEN choose_modules_to_use(opts, Tail(mods))
    ELSE <<mods[1]>> \o choose_modules_to_use(opts, Tail(mods))

(***************************************************************************)
(* BuildConfigurationInformation.__init__                                  *)
(***************************************************************************)
IsHeader(file) == EndsWith(file, <<".", "h">>)

\* the sources without the subtraction of the headers
BuildConfigurationInformation_KeepsHeaders(mods) ==
    LET all_files == Concat([i \in DOMAIN mods |-> mods[i].add])
    IN [headers |-> sorted(SelectSeq(all_files, IsHeader)),
        sources |-> sorted_set(SetOf(all_files))]

BuildConfigurationInformation(mods) ==
    LET all_files == Concat([i \in DOMAIN mods |-> mods[i].add])
        headers == sorted(SelectSeq(all_files, IsHeader))
    IN [headers |-> headers,
        sources |-> sorted_set(SetOf(all_files) \ SetOf(headers))]

(***************************************************************************)
(* create_template_vars                                                    *)
(***************************************************************************)
All == <<"a", "l", "l">>
AllBut == <<"a", "l", "l", "!">>

\* the exclusions compared as one string, not split at the commas
LibApplies_NoSplit(osname, os_basename) ==
    \/ osname = All
    \/ osname = os_basename
    \/ /\ StartsWith(osname, AllBut)
       /\ os_basename # SubSeq(osname, Len(AllBut) + 1, Len(osname))

\* whether link_to adds the library an item of module.libs names
LibApplies(osname, os_basename) ==
    \/ osname = All
    \/ osname = os_basename
    \/ /\ StartsWith(osname, AllBut)
       /\ ~InList(os_basename,
                  Split(SubSeq(osname, Len(AllBut) + 1, Len(osname)), ","))

link_to(mods, os_basename) ==
    sorted_set(UNION {{mods[i].libs[j][2] :
                         j \in {k \in DOMAIN mods[i].libs :
                                  LibApplies(mods[i].libs[k][1], os_basename)}} :
                      i \in DOMAIN mods})

Marker == <<"S", "U", "B", "M", "O", "D", "E", "L">>

submodel_fixup(tup, submodel) ==
    Replace(tup[1], Marker, Replace(submodel, tup[2], <<>>))

\* the architecture looked up before the submodel
mach_opts_ArchFirst(cc, arch, submodel) ==
    IF DictHas(cc.mach_opt_flags, arch)
    THEN submodel_fixup(DictGet(cc.mach_opt_flags, arch), submodel)
    ELSE IF DictHas(cc.mach_opt_flags, submodel)
    THEN submodel_fixup(DictGet(cc.mach_opt_flags, submodel), submodel)
    ELSE <<>>

mach_opts(cc, arch, submodel) ==
    IF DictHas(cc.mach_opt_flags, submodel)
    THEN submodel_fixup(DictGet(cc.mach_opt_flags, submodel), submodel)
    ELSE IF DictHas(cc.mach_opt_flags, arch)
    THEN submodel_fixup(DictGet(cc.mach_opt_flags, arch), submodel)
    ELSE <<>>

Default == <<"d", "e", "f", "a", "u", "l", "t">>

\* the keys of the dict create_template_vars builds
TemplateVarNames ==
    { "version_major", "version_minor", "version_patch", "version", "so_version",
      "timestamp", "user", "hostname", "command_line", "local_config",
      "prefix", "libdir", "includedir", "docdir", "doc_src_dir", "build_dir",
      "os", "arch", "submodel", "cc", "lib_opt", "mach_opt", "check_opt",
      "lang_flags", "warn_flags", "shared_flags", "dll_export_flags",
      "so_link", "link_to", "module_defines", "target_os_defines",
      "target_cpu_defines", "target_compiler_defines", "include_files",
      "lib_objs", "check_objs", "lib_build_cmds", "check_build_cmds",
      "ar_command", "ranlib_command", "install_cmd_exec", "install_cmd_data",
      "static_suffix", "so_suffix", "botan_config", "botan_pkgconfig",
      "doc_files", "mod_list", "mp_bits", "check_prefix", "lib_prefix" }

\* the values the model follows; the other keys are bound to text that no
\* modelled operation reads
create_template_vars(config, opts, mods, cc, os_basename) ==
    IF ~DictHas(cc.so_link_flags, os_basename) /\ ~DictHas(cc.so_link_flags, Default)
    THEN Raised("KeyError", Default, <<>>)
    ELSE Returned(
      [name \in TemplateVarNames |->
         CASE name = "os" -> opts.os
           [] name = "arch" -> opts.arch
           [] name = "submodel" -> opts.cpu
           [] name = "mach_opt" -> mach_opts(cc, opts.arch, opts.cpu)
           [] name = "so_link" ->
                IF DictHas(cc.so_link_flags, os_basename)
                THEN DictGet(cc.so_link_flags, os_basename)
                ELSE DictGet(cc.so_link_flags, Default)
           [] name = "link_to" ->
                Join(<<" ">>, [i \in DOMAIN link_to(mods, os_basename) |->
                                 cc.add_lib_option \o link_to(mods, os_basename)[i]])
           [] OTHER -> <<>>])

(***************************************************************************)
(* main, lines 644-652: select, derive the build configuration, compose    *)
(***************************************************************************)
ChooseModules ==
    /\ pc = "choose"
    /\ modules_to_use' = choose_modules_to_use(options, modules)
    /\ pc' = "build"
    /\ UNCHANGED <<options, given, to_obj, expanded, loaded, build_config, linked,
                   template_vars, stderr>>

BuildConfiguration ==
    /\ pc = "build"
    /\ build_config' = BuildConfigurationInformation(modules_to_use)
    /\ pc' = "compose"
    /\ UNCHANGED <<options, given, to_obj, expanded, loaded, modules_to_use, linked,
                   template_vars, stderr>>

CreateTemplateVars ==
    /\ pc = "compose"
    /\ IF ~InfoHas(archinfo, options.arch)
       THEN /\ Abort(Raised("KeyError", options.arch, <<>>))
            /\ UNCHANGED <<linked, template_vars>>
       ELSE LET made == create_template_vars(build_config, options, modules_to_use,
                                             InfoGet(ccinfo, options.compiler),
                                             InfoGet(osinfo, options.os).basename)
            IN IF made.raised
               THEN /\ Abort(made)
                    /\ UNCHANGED <<linked, template_vars>>
               ELSE /\ template_vars' = made.value
                    /\ linked' = link_to(modules_to_use, InfoGet(osinfo, options.os).basename)
                    /\ pc' = "templates"
                    /\ UNCHANGED stderr
    /\ UNCHANGED <<options, given, to_obj, expanded, loaded, modules_to_use, build_config>>

(***************************************************************************)
(* Inputs of the stages after the processor resolution                     *)
(***************************************************************************)
Gcc == <<"g", "c", "c">>
Msvc == <<"m">>
Linux == <<"l">>
Windows == <<"w">>

Module(name, cc, os, arch, add, libs) ==
    [basename |-> name, lives_in |-> name, cc |-> cc, os |-> os, arch |-> arch,
     add |-> [i \in DOMAIN add |-> os_path_join(name, add[i])],
     libs |-> force_to_dict(libs)]

Compiler(name, so_link_flags, mach_opt_flags) ==
    [basename |-> name, add_lib_option |-> <<"-", "l">>,
     so_link_flags |-> so_link_flags, mach_opt_flags |-> mach_opt_flags]

ModuleNames == { <<"m", "a">>, <<"m", "b">>, <<"m", "c">> }

PlainCompilers ==
    << Compiler(Gcc, << <<Default, <<"s", "o">> >> >>, <<>>),
       Compiler(Msvc, << <<Windows, <<"d", "l", "l">> >> >>, <<>>) >>

PlainSystems == << [basename |-> Linux], [basename |-> Windows] >>

\* (cc, os, arch) of the modules the selection is tried on
SelectConstraints ==
    { << <<>>, <<>>, <<>> >>,
      << <<Gcc>>, <<>>, <<>> >>,
      << <<>>, <<Linux>>, <<>> >>,
      << <<>>, <<>>, << <<"i">> >> >>,
      << <<>>, <<>>, << <<"p", "4">> >> >>,
      << <<Gcc>>, <<Linux>>, << <<"i">> >> >>,
      << <<Gcc>>, <<Linux>>, <<>> >>,
      << <<>>, <<Windows, Linux>>, << <<"a">>, <<"p", "4">> >> >> }

SelectModulePool ==
    {Module(n, c[1], c[2], c[3], <<>>, <<>>) : n \in ModuleNames, c \in SelectConstraints}

Targets ==
    {[compiler |-> c, os |-> o, arch |-> t[1], cpu |-> t[2]] :
        c \in {Gcc, Msvc}, o \in {Linux, Windows},
        t \in { << <<"i">>, <<"p", "4">> >>, << <<"i">>, <<"i">> >>,
                << <<"a">>, <<"a", "7">> >> }}

\* the state main is in when the processor has been resolved
Resolved ==
    /\ pc = "choose"
    /\ argv = [compiler |-> options.compiler, os |-> options.os, cpu |-> options.cpu]
    /\ platform = NoPlatform
    /\ files = <<>> /\ templates = <<>>
    /\ NothingDerived
    /\ stderr = <<>>

InitSelect ==
    /\ options \in Targets
    /\ archinfo = <<ArchI, ArchA>>
    /\ ccinfo = PlainCompilers
    /\ osinfo = PlainSystems
    /\ modules \in DictsOver(SelectModulePool, MaxModules)
    /\ Resolved

NextBuild == ChooseModules \/ BuildConfiguration \/ CreateTemplateVars

SpecSelect == InitSelect /\ [][NextBuild]_vars

(***************************************************************************)
(* Properties of the module selection                                      *)
(***************************************************************************)
Unconstrained(list, wanted) == list = <<>> \/ wanted \cap SetOf(list) # {}

Applicable(module) ==
    /\ Unconstrained(module.cc, {options.compiler})
    /\ Unconstrained(module.os, {options.os})
    /\ Unconstrained(module.arch, {options.arch, options.cpu})

Occurrences(x, l) == Cardinality({k \in DOMAIN l : l[k] = x})

\* C2: choose_modules_to_use puts a module in the chosen list exactly when
\* each of its cc, os and arch lists is empty or names the target (for arch:
\* the architecture or the submodel); every module is decided once (in the
\* list once, or not at all) and the modules are left as they were.
C2_ChooseModules ==
    [][pc = "choose" =>
         /\ modules' = modules
         /\ \A i \in DOMAIN modules :
               Occurrences(modules[i], modules_to_use') =
                  IF Applicable(modules[i]) THEN 1 ELSE 0
         /\ SetOf(modules_to_use') \subseteq SetOf(modules)]_vars

\* one module chosen through the submodel alone, another rejected
C2_Witness ==
    /\ pc = "build"
    /\ Len(modules) = 2 /\ Len(modules_to_use) = 1
    /\ \E i \in DOMAIN modules :
          /\ modules[i] = modules_to_use[1]
          /\ modules[i].arch # <<>>
          /\ ~InList(options.arch, modules[i].arch)
          /\ InList(options.cpu, modules[i].arch)

\* relaxed is module with one of its three lists emptied (the name aside)
RelaxationOf(relaxed, module) ==
    \/ relaxed.cc = <<>> /\ module.cc # <<>>
         /\ relaxed.os = module.os /\ relaxed.arch = module.arch
    \/ relaxed.os = <<>> /\ module.os # <<>>
         /\ relaxed.cc = module.cc /\ relaxed.arch = module.arch
    \/ relaxed.arch = <<>> /\ module.arch # <<>>
         /\ relaxed.cc = module.cc /\ relaxed.os = module.os

Chosen(module) == module \in SetOf(modules_to_use)

\* C10: if a module is selected for a target, the module with one of its cc,
\* os or arch lists replaced by the empty list is selected for it as well.
C10_Monotonic ==
    pc = "build" =>
       \A i, j \in DOMAIN modules :
          (RelaxationOf(modules[j], modules[i]) /\ Chosen(modules[i]))
             => Chosen(modules[j])

\* a constrained module and its relaxation are both selected
C10_Witness ==
    /\ pc = "build"
    /\ \E i, j \in DOMAIN modules :
          /\ RelaxationOf(modules[j], modules[i])
          /\ modules[i].cc # <<>> /\ modules[i].os # <<>> /\ modules[i].arch # <<>>
          /\ Chosen(modules[i]) /\ Chosen(modules[j])

(***************************************************************************)
(* Inputs and properties of the build configuration                        *)
(***************************************************************************)
\* the <add> groups tried: duplicates within a module, files out of order,
\* names that only look like headers, and absolute paths, which
\* os.path.join leaves alone and two modules can therefore share
AddLists ==
    { <<>>,
      << <<"a", ".", "h">> >>,
      << <<"a", ".", "c">>, <<"a", ".", "h">> >>,
      << <<"a", ".", "h">>, <<"a", ".", "h">> >>,
      << <<"b", ".", "c">>, <<"a", ".", "c">>, <<"b", ".", "c">> >>,
      << <<"z", ".", "h">>, <<"a", ".", "c">>, <<"b", ".", "h">> >>,
      << <<"/", "s", ".", "h">>, <<"a", "h">> >>,
      << <<"/", "s", ".", "c">>, <<"/", "s", ".", "h">> >>,
      << <<"z", ".", "h">>, <<"a", ".", "c">>, <<"/", "s", ".", "h">>,
         <<"/", "s", ".", "c">> >>,
      << <<".", "h">>, <<"h">> >> }

FilesModulePool ==
    {Module(n, <<>>, <<>>, <<>>, add, <<>>) : n \in ModuleNames, add \in AddLists}

InitBuildConfig ==
    /\ options \in {t \in Targets : t.compiler = Gcc /\ t.cpu = t.arch}
    /\ archinfo = <<ArchI, ArchA>>
    /\ ccinfo = PlainCompilers
    /\ osinfo = PlainSystems
    /\ modules \in DictsOver(FilesModulePool, MaxModules)
    /\ Resolved

SpecBuildConfig == InitBuildConfig /\ [][NextBuild]_vars

Ascending(l) == \A i, j \in DOMAIN l : i < j => ~StrLess(l[j], l[i])

Contributed == UNION {SetOf(modules_to_use[i].add) : i \in DOMAIN modules_to_use}

HeaderName(file) ==
    Len(file) >= 2 /\ file[Len(file) - 1] = "." /\ file[Len(file)] = "h"

\* C4: the headers and sources derived from the selected modules have no
\* element in common, each list is in ascending lexicographic order, the
\* headers are the contributed files ending in '.h' and the sources the rest.
C4_BuildConfiguration ==
    pc \in {"compose", "templates"} =>
       /\ SetOf(build_config.headers) \cap SetOf(build_config.sources) = {}
       /\ Ascending(build_config.headers)
       /\ Ascending(build_config.sources)
       /\ SetOf(build_config.headers) = {f \in Contributed : HeaderName(f)}
       /\ SetOf(build_config.sources) = {f \in Contributed : ~HeaderName(f)}

\* two modules share a header and a source, and one more file sorts
\* between them
C4_Witness ==
    /\ pc = "compose"
    /\ Len(modules_to_use) = 2
    /\ \E h \in SetOf(build_config.headers), c \in SetOf(build_config.sources) :
          /\ InList(h, modules_to_use[1].add) /\ InList(h, modules_to_use[2].add)
          /\ InList(c, modules_to_use[1].add) /\ InList(c, modules_to_use[2].add)
    /\ Len(build_config.headers) >= 3
    /\ Len(build_config.sources) >= 2

(***************************************************************************)
(* Inputs and properties of the link list                                  *)
(***************************************************************************)
Arrow == <<"-", ">">>

\* the <libs> groups tried, as the lexer collects them: key -> value triples
LibsGroups ==
    { <<>>,
      << All, Arrow, <<"z">> >>,
      << AllBut \o <<"w">>, Arrow, <<"m">> >>,
      << Linux, Arrow, <<"k">> >>,
      << Windows, Arrow, <<"k">> >>,
      << AllBut \o <<"l", ",", "w">>, Arrow, <<"z">> >>,
      << AllBut \o <<"l">>, Arrow, <<"m">>, Windows, Arrow, <<"z">> >>,
      << All, Arrow, <<"z">>, All, Arrow, <<"m">> >>,
      << AllBut \o <<"l", "w">>, Arrow, <<"k">> >>,
      << AllBut, Arrow, <<"k">> >>,
      << Linux, Arrow, <<"k">>, AllBut \o <<"w">>, Arrow, <<"m">>,
         Windows, Arrow, <<"z">> >> }

LibsModulePool ==
    {Module(n, <<>>, <<>>, <<>>, <<>>, l) : n \in ModuleNames, l \in LibsGroups}

InitLink ==
    /\ options \in {t \in Targets : t.cpu = t.arch}
    /\ archinfo = <<ArchI, ArchA>>
    /\ ccinfo = PlainCompilers
    /\ osinfo = PlainSystems
    /\ modules \in DictsOver(LibsModulePool, MaxModules)
    /\ Resolved

SpecLink == InitLink /\ [][NextBuild]_vars

StrictlyAscending(l) == \A i \in 1..(Len(l) - 1) : StrLess(l[i], l[i + 1])

\* name is one of the comma-separated entries of list
Listed(name, list) ==
    \E from \in 1..(Len(list) + 1) :
        LET to == from + Len(name) - 1
        IN /\ to <= Len(list)
           /\ SubSeq(list, from, to) = name
           /\ from = 1 \/ list[from - 1] = ","
           /\ to = Len(list) \/ list[to + 1] = ","

KeyCovers(key, os) ==
    \/ key = <<"a", "l", "l">>
    \/ key = os
    \/ /\ Len(key) >= 4
       /\ SubSeq(key, 1, 4) = <<"a", "l", "l", "!">>
       /\ ~Listed(os, SubSeq(key, 5, Len(key)))

LibraryNames ==
    UNION {{modules[i].libs[j][2] : j \in DOMAIN modules[i].libs} : i \in DOMAIN modules}

\* C3: the list link_to returns is strictly ascending and holds a library
\* exactly when a selected module maps to it under the key "all", the target
\* OS name, or an "all!..." key that does not list the target OS.
C3_LinkTo ==
    pc = "templates" =>
       /\ StrictlyAscending(linked)
       /\ \A lib \in LibraryNames \cup SetOf(linked) :
             InList(lib, linked) <=>
                \E i \in DOMAIN modules_to_use :
                   \E j \in DOMAIN modules_to_use[i].libs :
                      /\ modules_to_use[i].libs[j][2] = lib
                      /\ KeyCovers(modules_to_use[i].libs[j][1], options.os)

\* two libraries linked, a third left out because its only key excludes the
\* target OS among several
C3_Witness ==
    /\ pc = "templates"
    /\ Len(linked) = 2
    /\ \E i \in DOMAIN modules_to_use :
          \E j \in DOMAIN modules_to_use[i].libs :
             /\ ~InList(modules_to_use[i].libs[j][2], linked)
             /\ InList(",", modules_to_use[i].libs[j][1])

(***************************************************************************)
(* Inputs and properties of the machine-optimization flags                 *)
(***************************************************************************)
MachFlags ==
    { <<"-", "m", "=">> \o Marker,
      Marker \o <<" ">> \o Marker,
      <<"-", "a">> }

MachRegexes == { <<>>, <<"c", "-">>, <<"c", ".">> }

MachItems ==
    {<<proc, <<flags, regex>> >> :
        proc \in { <<"a">>, <<"c", "-", "9">>, <<"c", "-", "c", "-", "9">> },
        flags \in MachFlags, regex \in MachRegexes}

MachTables ==
    {d \in UNION {[1..len -> MachItems] : len \in 0..MaxMachOpts} :
        \A i, j \in 1..Len(d) : i # j => d[i][1] # d[j][1]}

MachTargets ==
    {[compiler |-> Gcc, os |-> Linux, arch |-> <<"a">>, cpu |-> cpu] :
        cpu \in { <<"a">>, <<"c", "-", "9">>, <<"c", "-", "c", "-", "9">>, <<"a", "7">> }}

InitMach ==
    /\ options \in MachTargets
    /\ archinfo = <<ArchI, ArchA>>
    /\ ccinfo \in { << Compiler(Gcc, << <<Default, <<"s", "o">> >> >>, table) >> :
                      table \in MachTables }
    /\ osinfo = PlainSystems
    /\ modules = <<>>
    /\ Resolved

SpecMach == InitMach /\ [][NextBuild]_vars

MachTable == ccinfo[1].mach_opt_flags

\* the item of the table whose record mach_opts has to use, if any
MachItemUsed(j) ==
    /\ j \in DOMAIN MachTable
    /\ \/ MachTable[j][1] = options.cpu
       \/ /\ MachTable[j][1] = options.arch
          /\ \A k \in DOMAIN MachTable : MachTable[k][1] # options.cpu

\* C5: mach_opts uses the record keyed by the submodel if there is one, else
\* the record keyed by the architecture, else gives the empty string; in the
\* flags of the record used every marker is replaced by the submodel name
\* with the record's regex string removed, an empty one removing nothing.
C5_MachOpts ==
    pc = "templates" =>
       /\ (\A j \in DOMAIN MachTable : ~MachItemUsed(j))
             => template_vars["mach_opt"] = <<>>
       /\ \A j \in DOMAIN MachTable :
             MachItemUsed(j) =>
                LET flags == MachTable[j][2][1]
                    regex == MachTable[j][2][2]
                    name == IF regex = <<>> THEN options.cpu
                            ELSE Replace(options.cpu, regex, <<>>)
                IN template_vars["mach_opt"] = Replace(flags, Marker, name)

\* the table has a record for the submodel and one for the architecture, and
\* the flags carry the submodel name less the regex
C5_Witness ==
    /\ pc = "templates"
    /\ options.cpu # options.arch
    /\ DictHas(MachTable, options.cpu) /\ DictHas(MachTable, options.arch)
    /\ DictGet(MachTable, options.cpu)[2] = <<"c", "-">>
    /\ template_vars["mach_opt"] = <<"-", "m", "=", "9">>

(***************************************************************************)
(* lex_me_harder                                                           *)
(***************************************************************************)
\* re.match('<(.*)>', token): a '<' first and a '>' anywhere after it; the
\* group is what lies between the '<' and the last '>'
IsGrouping(token) ==
    /\ token # <<>>
    /\ token[1] = "<"
    /\ \E j \in 2..Len(token) : token[j] = ">"

Max(S) == CHOOSE x \in S : \A y \in S : x >= y

GroupOf(token) ==
    SubSeq(token, 2, Max({j \in 2..Len(token) : token[j] = ">"}) - 1)

EndMarker(group) == <<"<", "/">> \o group \o <<">">>

S_info_txt == <<"i", "n", "f", "o", ".", "t", "x", "t">>
S_lives_in == <<"l", "i", "v", "e", "s", "_", "i", "n">>
S_basename == <<"b", "a", "s", "e", "n", "a", "m", "e">>

\* os.path.split(path)[1]
LastComponent(path) == Split(path, "/")[Len(Split(path, "/"))]

\* the object before the first token is read: where the file lives, what it
\* is called, an empty list per group and the default of every scalar field
FreshObject(infofile, allowed_groups, name_val_pairs) ==
    [field \in {S_lives_in, S_basename} \cup allowed_groups \cup DOMAIN name_val_pairs |->
        IF field \in DOMAIN name_val_pairs THEN name_val_pairs[field]
        ELSE IF field \in allowed_groups THEN <<>>
        ELSE IF field = S_lives_in THEN infofile.dirname
        ELSE IF infofile.basename = S_info_txt THEN LastComponent(infofile.dirname)
        ELSE infofile.basename]

\* a local name for the value of an expression: the expression is worked out
\* once, where the assignment stands in the code
WithValue(value, Rest(_)) == CHOOSE result \in {Rest(v) : v \in {value}} : TRUE

\* one turn of the for loop at position at.i with the object at.obj: a
\* group up to its end marker or the end of the file, or a scalar and the
\* token after it; lex.get_token() gives None at the end of the file, which
\* ends the collection of a group and is stored as a scalar's value
LexTurn(tokens, at, allowed_groups, name_val_pairs) ==
    IF IsGrouping(tokens[at.i])
    THEN IF GroupOf(tokens[at.i]) \notin allowed_groups
         THEN Raised("Unknown group", GroupOf(tokens[at.i]), <<>>)
         ELSE LET group == GroupOf(tokens[at.i])
                  ends == {j \in (at.i + 1)..Len(tokens) : tokens[j] = EndMarker(group)}
                  stop == IF ends = {} THEN Len(tokens) + 1 ELSE Min(ends)
              IN Returned([i |-> stop + 1,
                           obj |-> [at.obj EXCEPT
                                      ![group] = @ \o SubSeq(tokens, at.i + 1, stop - 1)]])
    ELSE IF tokens[at.i] \in DOMAIN name_val_pairs
    THEN Returned([i |-> at.i + 2,
                   obj |-> [at.obj EXCEPT
                              ![tokens[at.i]] = IF at.i + 1 <= Len(tokens)
                                                THEN tokens[at.i + 1] ELSE None]])
    ELSE Raised("Bad token", tokens[at.i], <<>>)

\* the for loop from the position and object of state on; the turn is taken
\* on the value of the state
RECURSIVE lex_tokens(_, _, _, _)
lex_tokens(tokens, state, allowed_groups, name_val_pairs) ==
    WithValue(state, LAMBDA at :
       IF at.i > Len(tokens) THEN Returned(at.obj)
       ELSE WithValue(LexTurn(tokens, at, allowed_groups, name_val_pairs), LAMBDA turn :
               IF turn.raised THEN turn
               ELSE lex_tokens(tokens, turn.value, allowed_groups, name_val_pairs)))

lex_me_harder(infofile, allowed_groups, name_val_pairs) ==
    lex_tokens(infofile.tokens,
               [i |-> 1, obj |-> FreshObject(infofile, allowed_groups, name_val_pairs)],
               allowed_groups, name_val_pairs)

(***************************************************************************)
(* ArchInfo.__init__                                                       *)
(***************************************************************************)
S_aliases == <<"a", "l", "i", "a", "s", "e", "s">>
S_submodels == <<"s", "u", "b", "m", "o", "d", "e", "l", "s">>
S_submodel_aliases == <<"s", "u", "b", "m", "o", "d", "e", "l", "_", "a", "l", "i", "a", "s", "e", "s">>
S_realname == <<"r", "e", "a", "l", "n", "a", "m", "e">>
S_default_submodel == <<"d", "e", "f", "a", "u", "l", "t", "_", "s", "u", "b", "m", "o", "d", "e", "l">>
S_endian == <<"e", "n", "d", "i", "a", "n">>
S_unaligned == <<"u", "n", "a", "l", "i", "g", "n", "e", "d">>
S_UNKNOWN == <<"<", "U", "N", "K", "N", "O", "W", "N", ">">>

ArchGroups == {S_aliases, S_submodels, S_submodel_aliases}

ArchPairs ==
    [name \in {S_realname, S_default_submodel, S_endian, S_unaligned} |->
        IF name = S_realname THEN S_UNKNOWN
        ELSE IF name = S_unaligned THEN <<"n", "o">>
        ELSE None]

\* the attributes of an ArchInfo the model follows
ArchInfo(infofile) ==
    WithValue(lex_me_harder(infofile, ArchGroups, ArchPairs), LAMBDA lexed :
       IF lexed.raised THEN lexed
       ELSE Returned([basename |-> lexed.value[S_basename],
                      aliases |-> lexed.value[S_aliases],
                      submodels |-> lexed.value[S_submodels],
                      submodel_aliases |-> force_to_dict(lexed.value[S_submodel_aliases])]))

\* the lexer run on one architecture file
LexMeHarder ==
    /\ pc = "lex"
    /\ \E lexed \in {lex_me_harder(files[1], ArchGroups, ArchPairs)} :
          IF lexed.raised
          THEN /\ Abort(lexed)
               /\ UNCHANGED to_obj
          ELSE /\ to_obj' = lexed.value
               /\ pc' = "lexed"
               /\ UNCHANGED stderr
    /\ UNCHANGED <<options, given, expanded, loaded, derived>>

(***************************************************************************)
(* Inputs and properties of the lexer                                      *)
(***************************************************************************)
LexTokenPool ==
    { <<"<", "a", "l", "i", "a", "s", "e", "s", ">">>, <<"<", "/", "a", "l", "i", "a", "s", "e", "s", ">">>, <<"<", "s", "u", "b", "m", "o", "d", "e", "l", "s", ">">>, <<"<", "b", "o", "g", "u", "s", ">">>,
      S_endian, S_realname, <<"b", "i", "g">> }

TokenStreams == UNION {[1..len -> LexTokenPool] : len \in 0..MaxTokens}

InitLex ==
    /\ pc = "lex"
    /\ files \in {<< [dirname |-> <<"a", "r", "c", "h">>, basename |-> <<"i", "a", "3", "2">>, tokens |-> t] >> :
                    t \in TokenStreams}
    /\ options = NoOptions
    /\ argv = [compiler |-> None, os |-> None, cpu |-> None]
    /\ platform = NoPlatform
    /\ templates = <<>>
    /\ archinfo = <<>> /\ ccinfo = <<>> /\ osinfo = <<>> /\ modules = <<>>
    /\ NothingDerived
    /\ stderr = <<>>

SpecLex == InitLex /\ [][LexMeHarder]_vars

Opens(token, group) == IsGrouping(token) /\ GroupOf(token) = group

\* the stream from position i on is made of whole groups (an opener of a
\* declared group, collected tokens, its end marker) and of declared scalar
\* names each followed by a value token
RECURSIVE WellFormedFrom(_, _)
WellFormedFrom(tokens, i) ==
    IF i > Len(tokens) THEN TRUE
    ELSE IF \E g \in ArchGroups : Opens(tokens[i], g)
    THEN \E j \in (i + 1)..Len(tokens) :
            /\ tokens[j] = EndMarker(GroupOf(tokens[i]))
            /\ \A k \in (i + 1)..(j - 1) : tokens[k] # EndMarker(GroupOf(tokens[i]))
            /\ WellFormedFrom(tokens, j + 1)
    ELSE IF tokens[i] \in DOMAIN ArchPairs
    THEN i + 1 <= Len(tokens) /\ WellFormedFrom(tokens, i + 2)
    ELSE FALSE

\* C7: the lexer finishes without error only if every token opened a
\* declared group, was collected inside an open group, closed the open
\* group, or was a declared scalar name followed by a value token; a scalar
\* name at the end of the file and a group never closed are parse failures.
C7_LexerRejects ==
    pc = "lexed" => WellFormedFrom(files[1].tokens, 1)

(***************************************************************************)
(* ModuleInfo.__init__, CompilerInfo.__init__, OsInfo.__init__             *)
(***************************************************************************)
S_add == <<"a", "d", "d">>
S_requires == <<"r", "e", "q", "u", "i", "r", "e", "s">>
S_os == <<"o", "s">>
S_arch == <<"a", "r", "c", "h">>
S_cc == <<"c", "c">>
S_libs == <<"l", "i", "b", "s">>
S_mp_bits == <<"m", "p", "_", "b", "i", "t", "s">>

ModuleGroups == {S_add, S_requires, S_os, S_arch, S_cc, S_libs}

\* the defaults; mp_bits 0 and the booleans are written as their text
ModulePairs ==
    <<"r", "e", "a", "l", "n", "a", "m", "e">> :> <<"<", "U", "N", "K", "N", "O", "W", "N", ">">>
    @@ <<"l", "o", "a", "d", "_", "o", "n">> :> <<"r", "e", "q", "u", "e", "s", "t">>
    @@ <<"d", "e", "f", "i", "n", "e">> :> None
    @@ <<"m", "o", "d", "s", "e", "t">> :> None
    @@ <<"u", "s", "e", "s", "_", "t", "r", "1">> :> <<"f", "a", "l", "s", "e">>
    @@ <<"n", "o", "t", "e">> :> <<>>
    @@ <<"m", "p", "_", "b", "i", "t", "s">> :> <<"0">>

Digits == {"0", "1", "2", "3", "4", "5", "6", "7", "8", "9"}

\* int(value) of a lexed value: fails on None and on text that is no number
IntFails(value) ==
    value = None \/ value = <<>> \/ \E i \in DOMAIN value : value[i] \notin Digits

ModuleInfo(infofile) ==
    WithValue(lex_me_harder(infofile, ModuleGroups, ModulePairs), LAMBDA lexed :
       IF lexed.raised THEN lexed
       ELSE IF IntFails(lexed.value[S_mp_bits])
       THEN Raised(IF lexed.value[S_mp_bits] = None THEN "TypeError" ELSE "ValueError",
                   lexed.value[S_mp_bits], <<>>)
       ELSE Returned([basename |-> lexed.value[S_basename],
                      lives_in |-> lexed.value[S_lives_in],
                      cc |-> lexed.value[S_cc],
                      os |-> lexed.value[S_os],
                      arch |-> lexed.value[S_arch],
                      add |-> [i \in DOMAIN lexed.value[S_add] |->
                                 os_path_join(lexed.value[S_lives_in], lexed.value[S_add][i])],
                      libs |-> force_to_dict(lexed.value[S_libs])]))

S_so_link_flags == <<"s", "o", "_", "l", "i", "n", "k", "_", "f", "l", "a", "g", "s">>
S_mach_opt == <<"m", "a", "c", "h", "_", "o", "p", "t">>
S_mach_abi_linking == <<"m", "a", "c", "h", "_", "a", "b", "i", "_", "l", "i", "n", "k", "i", "n", "g">>
S_add_lib_option == <<"a", "d", "d", "_", "l", "i", "b", "_", "o", "p", "t", "i", "o", "n">>

CompilerGroups == {S_so_link_flags, S_mach_opt, S_mach_abi_linking}

CompilerPairs ==
    <<"r", "e", "a", "l", "n", "a", "m", "e">> :> <<"<", "U", "N", "K", "N", "O", "W", "N", ">">>
    @@ <<"b", "i", "n", "a", "r", "y", "_", "n", "a", "m", "e">> :> None
    @@ <<"c", "o", "m", "p", "i", "l", "e", "_", "o", "p", "t", "i", "o", "n">> :> <<"-", "c", " ">>
    @@ <<"o", "u", "t", "p", "u", "t", "_", "t", "o", "_", "o", "p", "t", "i", "o", "n">> :> <<"-", "o", " ">>
    @@ <<"a", "d", "d", "_", "i", "n", "c", "l", "u", "d", "e", "_", "d", "i", "r", "_", "o", "p", "t", "i", "o", "n">> :> <<"-", "I">>
    @@ <<"a", "d", "d", "_", "l", "i", "b", "_", "d", "i", "r", "_", "o", "p", "t", "i", "o", "n">> :> <<"-", "L">>
    @@ <<"a", "d", "d", "_", "l", "i", "b", "_", "o", "p", "t", "i", "o", "n">> :> <<"-", "l">>
    @@ <<"l", "i", "b", "_", "o", "p", "t", "_", "f", "l", "a", "g", "s">> :> <<>>
    @@ <<"c", "h", "e", "c", "k", "_", "o", "p", "t", "_", "f", "l", "a", "g", "s">> :> <<>>
    @@ <<"d", "e", "b", "u", "g", "_", "f", "l", "a", "g", "s">> :> <<>>
    @@ <<"n", "o", "_", "d", "e", "b", "u", "g", "_", "f", "l", "a", "g", "s">> :> <<>>
    @@ <<"s", "h", "a", "r", "e", "d", "_", "f", "l", "a", "g", "s">> :> <<>>
    @@ <<"l", "a", "n", "g", "_", "f", "l", "a", "g", "s">> :> <<>>
    @@ <<"w", "a", "r", "n", "i", "n", "g", "_", "f", "l", "a", "g", "s">> :> <<>>
    @@ <<"d", "l", "l", "_", "i", "m", "p", "o", "r", "t", "_", "f", "l", "a", "g", "s">> :> <<>>
    @@ <<"d", "l", "l", "_", "e", "x", "p", "o", "r", "t", "_", "f", "l", "a", "g", "s">> :> <<>>
    @@ <<"a", "r", "_", "c", "o", "m", "m", "a", "n", "d">> :> None
    @@ <<"m", "a", "k", "e", "f", "i", "l", "e", "_", "s", "t", "y", "l", "e">> :> <<>>
    @@ <<"c", "o", "m", "p", "i", "l", "e", "r", "_", "h", "a", "s", "_", "t", "r", "1">> :> <<"F", "a", "l", "s", "e">>

\* the while loop over self.mach_opt: name, '->', flags, and a regex when a
\* token is left that is the last one or is not followed by '->'; pop(0) on
\* an empty list raises IndexError
\* the loop taking a regex whenever a token is left after the flags
RECURSIVE mach_opt_flags_from_NoLookahead(_, _, _)
mach_opt_flags_from_NoLookahead(mach_opt, mach_opt_flags, basename) ==
    WithValue(<<mach_opt, mach_opt_flags>>, LAMBDA at :
       IF at[1] = <<>> THEN Returned(at[2])
       ELSE IF Len(at[1]) < 2 THEN Raised("IndexError", <<>>, <<>>)
       ELSE IF at[1][2] # Arrow THEN Raised("Parsing err in mach_opt", basename, <<>>)
       ELSE IF Len(at[1]) < 3 THEN Raised("IndexError", <<>>, <<>>)
       ELSE LET rest == SubSeq(at[1], 4, Len(at[1]))
                with_regex == Len(rest) > 0
                regex == IF with_regex THEN rest[1] ELSE <<>>
            IN mach_opt_flags_from_NoLookahead(IF with_regex THEN Tail(rest) ELSE rest,
                                   DictPut(at[2], at[1][1], <<at[1][3], regex>>),
                                   basename))

RECURSIVE mach_opt_flags_from(_, _, _)
mach_opt_flags_from(mach_opt, mach_opt_flags, basename) ==
    WithValue(<<mach_opt, mach_opt_flags>>, LAMBDA at :
       IF at[1] = <<>> THEN Returned(at[2])
       ELSE IF Len(at[1]) < 2 THEN Raised("IndexError", <<>>, <<>>)
       ELSE IF at[1][2] # Arrow THEN Raised("Parsing err in mach_opt", basename, <<>>)
       ELSE IF Len(at[1]) < 3 THEN Raised("IndexError", <<>>, <<>>)
       ELSE LET rest == SubSeq(at[1], 4, Len(at[1]))
                with_regex == Len(rest) > 0 /\ (Len(rest) = 1 \/ rest[2] # Arrow)
                regex == IF with_regex THEN rest[1] ELSE <<>>
            IN mach_opt_flags_from(IF with_regex THEN Tail(rest) ELSE rest,
                                   DictPut(at[2], at[1][1], <<at[1][3], regex>>),
                                   basename))

CompilerInfo(infofile) ==
    WithValue(lex_me_harder(infofile, CompilerGroups, CompilerPairs), LAMBDA lexed :
       IF lexed.raised THEN lexed
       ELSE WithValue(mach_opt_flags_from(lexed.value[S_mach_opt], <<>>,
                                          lexed.value[S_basename]), LAMBDA parsed :
               IF parsed.raised THEN parsed
               ELSE Returned([basename |-> lexed.value[S_basename],
                              add_lib_option |-> lexed.value[S_add_lib_option],
                              so_link_flags |-> force_to_dict(lexed.value[S_so_link_flags]),
                              mach_opt_flags |-> parsed.value])))

S_target_features == <<"t", "a", "r", "g", "e", "t", "_", "f", "e", "a", "t", "u", "r", "e", "s">>
S_supports_shared == <<"s", "u", "p", "p", "o", "r", "t", "s", "_", "s", "h", "a", "r", "e", "d">>

OsGroups == {S_aliases, S_target_features, S_supports_shared}

OsPairs ==
    <<"r", "e", "a", "l", "n", "a", "m", "e">> :> <<"<", "U", "N", "K", "N", "O", "W", "N", ">">>
    @@ <<"o", "s", "_", "t", "y", "p", "e">> :> None
    @@ <<"o", "b", "j", "_", "s", "u", "f", "f", "i", "x">> :> <<"o">>
    @@ <<"s", "o", "_", "s", "u", "f", "f", "i", "x">> :> <<"s", "o">>
    @@ <<"s", "t", "a", "t", "i", "c", "_", "s", "u", "f", "f", "i", "x">> :> <<"a">>
    @@ <<"a", "r", "_", "c", "o", "m", "m", "a", "n", "d">> :> <<"a", "r", " ", "c", "r", "s">>
    @@ <<"a", "r", "_", "n", "e", "e", "d", "s", "_", "r", "a", "n", "l", "i", "b">> :> <<"F", "a", "l", "s", "e">>
    @@ <<"i", "n", "s", "t", "a", "l", "l", "_", "r", "o", "o", "t">> :> <<"/", "u", "s", "r", "/", "l", "o", "c", "a", "l">>
    @@ <<"h", "e", "a", "d", "e", "r", "_", "d", "i", "r">> :> <<"i", "n", "c", "l", "u", "d", "e">>
    @@ <<"l", "i", "b", "_", "d", "i", "r">> :> <<"l", "i", "b">>
    @@ <<"d", "o", "c", "_", "d", "i", "r">> :> <<"s", "h", "a", "r", "e", "/", "d", "o", "c">>
    @@ <<"i", "n", "s", "t", "a", "l", "l", "_", "c", "m", "d", "_", "d", "a", "t", "a">> :> <<"i", "n", "s", "t", "a", "l", "l", " ", "-", "m", " ", "6", "4", "4">>
    @@ <<"i", "n", "s", "t", "a", "l", "l", "_", "c", "m", "d", "_", "e", "x", "e", "c">> :> <<"i", "n", "s", "t", "a", "l", "l", " ", "-", "m", " ", "7", "5", "5">>

OsInfo(infofile) ==
    WithValue(lex_me_harder(infofile, OsGroups, OsPairs), LAMBDA lexed :
       IF lexed.raised THEN lexed
       ELSE Returned([basename |-> lexed.value[S_basename]]))

(***************************************************************************)
(* load_info_files                                                         *)
(***************************************************************************)
\* dict([(basename, info), ...]): a later file of the same name replaces
\* the earlier one
RECURSIVE InfoPut(_, _)
InfoPut(infos, info) ==
    IF infos = <<>> THEN <<info>>
    ELSE IF infos[1].basename = info.basename THEN <<info>> \o Tail(infos)
    ELSE <<infos[1]>> \o InfoPut(Tail(infos), info)

RECURSIVE InfoDel(_, _)
InfoDel(infos, name) ==
    IF infos = <<>> THEN <<>>
    ELSE IF infos[1].basename = name THEN Tail(infos)
    ELSE <<infos[1]>> \o InfoDel(Tail(infos), name)

Construct(infofile) ==
    CASE infofile.kind = "module" -> ModuleInfo(infofile)
      [] infofile.kind = "arch" -> ArchInfo(infofile)
      [] infofile.kind = "os" -> OsInfo(infofile)
      [] infofile.kind = "cc" -> CompilerInfo(infofile)

\* the objects of the files of a list, up to the first that raises
RECURSIVE LoadInfos(_, _)
LoadInfos(infofiles, infos) ==
    IF infofiles = <<>> THEN Returned(infos)
    ELSE WithValue(<<Construct(infofiles[1]), infos>>, LAMBDA made :
            IF made[1].raised THEN made[1]
            ELSE LoadInfos(Tail(infofiles), InfoPut(made[2], made[1].value)))

OfKind(infofiles, kind) == SelectSeq(infofiles, LAMBDA f : f.kind = kind)

S_defaults == <<"d", "e", "f", "a", "u", "l", "t", "s">>

load_info_files(infofiles) ==
    WithValue(LoadInfos(OfKind(infofiles, "module"), <<>>), LAMBDA mods :
    IF mods.raised THEN mods ELSE
    WithValue(LoadInfos(OfKind(infofiles, "arch"), <<>>), LAMBDA archs :
    IF archs.raised THEN archs ELSE
    WithValue(LoadInfos(OfKind(infofiles, "os"), <<>>), LAMBDA oses :
    IF oses.raised THEN oses ELSE
    WithValue(LoadInfos(OfKind(infofiles, "cc"), <<>>), LAMBDA ccs :
    IF ccs.raised THEN ccs
    ELSE IF ~InfoHas(oses.value, S_defaults) THEN Raised("KeyError", S_defaults, <<>>)
    ELSE Returned([modules |-> mods.value, archinfo |-> archs.value,
                   ccinfo |-> ccs.value,
                   osinfo |-> InfoDel(oses.value, S_defaults)])))))

(***************************************************************************)
(* process_template                                                        *)
(***************************************************************************)
\* a template is its text cut at the placeholders: parts of kind "text" and
\* parts of kind "var" holding the name after the '%'
process_template(template_file, content, variables) ==
    LET unbound == {i \in DOMAIN content :
                       content[i].kind = "var" /\ content[i].text \notin DOMAIN variables}
    IN IF unbound # {}
       THEN Raised("Unbound var", content[Min(unbound)].text, <<template_file>>)
       ELSE Returned(Concat([i \in DOMAIN content |->
                               IF content[i].kind = "var" THEN variables[content[i].text]
                               ELSE content[i].text]))

(***************************************************************************)
(* main                                                                    *)
(***************************************************************************)
UnknownTarget_KeysUnsorted(kind, name, infos) ==
    Raised(kind, name, [i \in DOMAIN infos |-> infos[i].basename])

\* the message of an unknown compiler or OS lists the sorted keys
UnknownTarget(kind, name, infos) == Raised(kind, name, SortedKeys(infos))

ParseCommandLine ==
    /\ pc = "start"
    /\ IF argv.args # <<>>
       THEN /\ Abort(Raised("Unhandled option(s)", argv.args, <<>>))
            /\ UNCHANGED options
       ELSE /\ options' = [compiler |-> argv.compiler,
                           os |-> IF argv.os = None THEN Lower(platform.system)
                                  ELSE argv.os,
                           cpu |-> argv.cpu, arch |-> None]
            /\ pc' = "load"
            /\ UNCHANGED stderr
    /\ UNCHANGED <<given, to_obj, expanded, loaded, derived>>

LoadInfoFiles ==
    /\ pc = "load"
    /\ \E info \in {load_info_files(files)} :
          IF info.raised
          THEN /\ Abort(info)
               /\ UNCHANGED loaded
          ELSE /\ modules' = info.value.modules
               /\ archinfo' = info.value.archinfo
               /\ ccinfo' = info.value.ccinfo
               /\ osinfo' = info.value.osinfo
               /\ pc' = "check_compiler"
               /\ UNCHANGED stderr
    /\ UNCHANGED <<options, given, to_obj, expanded, derived>>

CheckCompiler ==
    /\ pc = "check_compiler"
    /\ LET compiler == IF options.compiler = None THEN Gcc ELSE options.compiler
       IN /\ options' = [options EXCEPT !.compiler = compiler]
          /\ IF ~InfoHas(ccinfo, compiler)
             THEN Abort(UnknownTarget("Unknown compiler", compiler, ccinfo))
             ELSE pc' = "check_os" /\ UNCHANGED stderr
    /\ UNCHANGED <<given, to_obj, expanded, loaded, derived>>

CheckOS ==
    /\ pc = "check_os"
    /\ IF ~InfoHas(osinfo, options.os)
       THEN Abort(UnknownTarget("Unknown OS", options.os, osinfo))
       ELSE pc' = "resolve" /\ UNCHANGED stderr
    /\ UNCHANGED <<options, given, to_obj, expanded, loaded, derived>>

\* one turn of the loop over templates_to_proc, a dict: any template not
\* yet expanded may be the next; main returns after the last one
ProcessTemplate ==
    /\ pc = "templates"
    /\ \E template \in DOMAIN templates \ expanded :
          IF process_template(template, templates[template], template_vars).raised
          THEN /\ Abort(process_template(template, templates[template], template_vars))
               /\ UNCHANGED expanded
          ELSE /\ expanded' = expanded \cup {template}
               /\ pc' = IF expanded' = DOMAIN templates THEN "done" ELSE "templates"
               /\ UNCHANGED stderr
    /\ UNCHANGED <<options, given, to_obj, loaded, derived>>

(***************************************************************************)
(* Inputs of main: what is on disk, the command line, the host             *)
(***************************************************************************)
FileModA ==
    [kind |-> "module", dirname |-> <<"s", "r", "c", "/", "m", "a">>,
     basename |-> S_info_txt,
     tokens |-> << <<"<", "a", "d", "d", ">">>, <<"a", ".", "c">>,
                  <<"a", ".", "h">>, <<"<", "/", "a", "d", "d", ">">>,
                  <<"<", "l", "i", "b", "s", ">">>, <<"a", "l", "l">>,
                  <<"-", ">">>, <<"z">>,
                  <<"<", "/", "l", "i", "b", "s", ">">> >>]

FileModB ==
    [kind |-> "module", dirname |-> <<"s", "r", "c", "/", "m", "b">>,
     basename |-> S_info_txt,
     tokens |-> << <<"m", "p", "_", "b", "i", "t", "s">>, <<"3", "2">>,
                  <<"<", "c", "c", ">">>, <<"g", "c", "c">>,
                  <<"<", "/", "c", "c", ">">>,
                  <<"<", "a", "r", "c", "h", ">">>, <<"p", "4">>,
                  <<"<", "/", "a", "r", "c", "h", ">">>,
                  <<"<", "a", "d", "d", ">">>, <<"b", ".", "c">>,
                  <<"<", "/", "a", "d", "d", ">">>,
                  <<"<", "l", "i", "b", "s", ">">>,
                  <<"a", "l", "l", "!", "w">>, <<"-", ">">>, <<"m">>,
                  <<"<", "/", "l", "i", "b", "s", ">">> >>]

FileModBad ==
    [kind |-> "module", dirname |-> <<"s", "r", "c", "/", "m", "c">>,
     basename |-> S_info_txt,
     tokens |-> << <<"<", "a", "d", "d", ">">>, <<"c", ".", "c">>,
                  <<"<", "/", "a", "d", "d", ">">>,
                  <<"<", "b", "o", "g", "u", "s", ">">>, <<"x">>,
                  <<"<", "/", "b", "o", "g", "u", "s", ">">> >>]

FileArch ==
    [kind |-> "arch", dirname |-> <<"s", "r", "c", "/", "b", "u", "i", "l", "d", "-", "d", "a", "t", "a", "/", "a", "r", "c", "h">>,
     basename |-> <<"i">>,
     tokens |-> << <<"e", "n", "d", "i", "a", "n">>,
                  <<"l", "i", "t", "t", "l", "e">>,
                  <<"<", "a", "l", "i", "a", "s", "e", "s", ">">>, <<"x">>,
                  <<"<", "/", "a", "l", "i", "a", "s", "e", "s", ">">>,
                  <<"<", "s", "u", "b", "m", "o", "d", "e", "l", "s", ">">>,
                  <<"p">>, <<"p", "4">>,
                  <<"<", "/", "s", "u", "b", "m", "o", "d", "e", "l", "s", ">">>,
                  <<"<", "s", "u", "b", "m", "o", "d", "e", "l", "_", "a", "l", "i", "a", "s", "e", "s", ">">>,
                  <<"c", ".", "*">>, <<"-", ">">>, <<"p", "4">>,
                  <<"<", "/", "s", "u", "b", "m", "o", "d", "e", "l", "_", "a", "l", "i", "a", "s", "e", "s", ">">> >>]

FileOsDefaults ==
    [kind |-> "os", dirname |-> <<"s", "r", "c", "/", "b", "u", "i", "l", "d", "-", "d", "a", "t", "a", "/", "o", "s">>,
     basename |-> <<"d", "e", "f", "a", "u", "l", "t", "s">>,
     tokens |-> <<>>]

FileOs ==
    [kind |-> "os", dirname |-> <<"s", "r", "c", "/", "b", "u", "i", "l", "d", "-", "d", "a", "t", "a", "/", "o", "s">>,
     basename |-> <<"l">>,
     tokens |-> << <<"o", "b", "j", "_", "s", "u", "f", "f", "i", "x">>,
                  <<"o">>,
                  <<"<", "t", "a", "r", "g", "e", "t", "_", "f", "e", "a", "t", "u", "r", "e", "s", ">">>,
                  <<"x">>,
                  <<"<", "/", "t", "a", "r", "g", "e", "t", "_", "f", "e", "a", "t", "u", "r", "e", "s", ">">> >>]

FileCc ==
    [kind |-> "cc", dirname |-> <<"s", "r", "c", "/", "b", "u", "i", "l", "d", "-", "d", "a", "t", "a", "/", "c", "c">>,
     basename |-> <<"g", "c", "c">>,
     tokens |-> << <<"<", "s", "o", "_", "l", "i", "n", "k", "_", "f", "l", "a", "g", "s", ">">>,
                  <<"d", "e", "f", "a", "u", "l", "t">>, <<"-", ">">>,
                  <<"s", "o">>,
                  <<"<", "/", "s", "o", "_", "l", "i", "n", "k", "_", "f", "l", "a", "g", "s", ">">>,
                  <<"<", "m", "a", "c", "h", "_", "o", "p", "t", ">">>,
                  <<"p", "4">>, <<"-", ">">>,
                  <<"-", "m", "=", "S", "U", "B", "M", "O", "D", "E", "L">>,
                  <<"p">>, <<"i">>, <<"-", ">">>, <<"-", "a">>,
                  <<"<", "/", "m", "a", "c", "h", "_", "o", "p", "t", ">">> >>]

FileCcBad ==
    [kind |-> "cc", dirname |-> <<"s", "r", "c", "/", "b", "u", "i", "l", "d", "-", "d", "a", "t", "a", "/", "c", "c">>,
     basename |-> <<"b", "a", "d">>,
     tokens |-> << <<"<", "m", "a", "c", "h", "_", "o", "p", "t", ">">>,
                  <<"i">>, <<"=", ">">>, <<"x">>,
                  <<"<", "/", "m", "a", "c", "h", "_", "o", "p", "t", ">">> >>]

FileOsWindows ==
    [kind |-> "os", dirname |-> FileOs.dirname, basename |-> Windows,
     tokens |-> << <<"o", "b", "j", "_", "s", "u", "f", "f", "i", "x">>, <<"o", "b", "j">> >>]

FileCcMsvc ==
    [kind |-> "cc", dirname |-> FileCc.dirname, basename |-> Msvc,
     tokens |-> << <<"a", "d", "d", "_", "l", "i", "b", "_", "o", "p", "t", "i", "o", "n">>, <<"%", "s", ".", "l", "i", "b">> >>]

\* in the order the directory walk yields them
AllFiles ==
    <<FileModA, FileModB, FileModBad, FileArch, FileOsDefaults, FileOsWindows,
      FileOs, FileCcMsvc, FileCc, FileCcBad>>

\* file systems: complete, and with one file missing or one broken file more
FileSystems ==
    {SelectSeq(AllFiles, LAMBDA f : f \in present) :
        present \in
          {SetOf(AllFiles) \ ({FileModBad, FileCcBad} \cup missing) :
              missing \in {{}, {FileArch}, {FileOsDefaults}, {FileOs}, {FileCc},
                           {FileModB}}}
          \cup {SetOf(AllFiles) \ {FileModBad}, SetOf(AllFiles) \ {FileCcBad}}}

TemplateFiles ==
    {"unix_shr.in", "unix.in", "nmake.in", "buildh.in", "botan-config.in",
     "botan.pc.in"}

GoodTemplate ==
    << [kind |-> "text", text |-> <<"C", "X", "X", " ", "=", " ">>], [kind |-> "var", text |-> "cc"],
       [kind |-> "text", text |-> <<" ">>], [kind |-> "var", text |-> "link_to"] >>

BadTemplate ==
    << [kind |-> "var", text |-> "cc"], [kind |-> "var", text |-> "undefined_var"] >>

TemplateSets ==
    {[t \in TemplateFiles |-> IF t \in bad THEN BadTemplate ELSE GoodTemplate] :
        bad \in {{}, {"buildh.in"}, {"nmake.in", "botan.pc.in"}}}

CommandLines ==
    [compiler : {None, Gcc, <<"q">>}, os : {None, <<"q">>},
     cpu : {None, <<"p", "4">>, <<"q">>}, args : {<<>>, <<<<"j", "u", "n", "k">>>>}]

Hosts == [machine : {<<"i">>, <<"q">>}, processor : {<<>>}, system : {<<"L">>}]

Init ==
    /\ pc = "start"
    /\ argv \in CommandLines
    /\ platform \in Hosts
    /\ files \in FileSystems
    /\ templates \in TemplateSets
    /\ options = NoOptions
    /\ archinfo = <<>> /\ ccinfo = <<>> /\ osinfo = <<>> /\ modules = <<>>
    /\ NothingDerived
    /\ stderr = <<>>

Next ==
    \/ ParseCommandLine
    \/ LoadInfoFiles
    \/ CheckCompiler
    \/ CheckOS
    \/ GuessProcessor
    \/ CanonProcessor
    \/ ChooseModules
    \/ BuildConfiguration
    \/ CreateTemplateVars
    \/ ProcessTemplate

Spec == Init /\ [][Next]_vars

\* main is one thread that runs to its end: a stage that can run does
FairSpec == Spec /\ WF_vars(Next)


(***************************************************************************)
(* Properties of main: unknown targets                                     *)
(***************************************************************************)
Keys(infos) == {infos[i].basename : i \in DOMAIN infos}

\* the message names every key of the map once, in ascending order
Enumerates(choices, infos) ==
    StrictlyAscending(choices) /\ SetOf(choices) = Keys(infos)

RequestedCompiler == IF options.compiler = None THEN Gcc ELSE options.compiler

Unidentifiable ==
    options.cpu # None /\ \A i \in DOMAIN archinfo : ~AnyMatch(archinfo[i], options.cpu)

\* the step of the compiler check and of the OS check on an unknown name
UnknownCompilerAborts ==
    pc = "check_compiler" /\ RequestedCompiler \notin Keys(ccinfo)
    => /\ pc' = "aborted"
       /\ Len(stderr') = 1
       /\ stderr'[1].kind = "Unknown compiler"
       /\ stderr'[1].subject = RequestedCompiler
       /\ Enumerates(stderr'[1].choices, ccinfo)

UnknownOSAborts ==
    pc = "check_os" /\ options.os \notin Keys(osinfo)
    => /\ pc' = "aborted"
       /\ Len(stderr') = 1
       /\ stderr'[1].kind = "Unknown OS"
       /\ stderr'[1].subject = options.os
       /\ Enumerates(stderr'[1].choices, osinfo)

\* the step of the processor resolution on a requested processor no
\* architecture matches, with the choices the message is to hold
UnknownProcessorAborts(Choices(_)) ==
    pc = "resolve" /\ Unidentifiable
    => /\ pc' = "aborted"
       /\ Len(stderr') = 1
       /\ stderr'[1].kind = "Unknown or unidentifiable processor"
       /\ stderr'[1].subject = options.cpu
       /\ Choices(stderr'[1].choices)

EnumeratesArchitectures(choices) == Enumerates(choices, archinfo)
NoChoices(choices) == choices = <<>>

\* C8 as stated: an unknown compiler, an unknown OS and a requested
\* processor no architecture matches each abort the run with a message that
\* enumerates the valid choices of that dimension
C8_Original ==
    [][/\ UnknownCompilerAborts
       /\ UnknownOSAborts
       /\ UnknownProcessorAborts(EnumeratesArchitectures)]_vars

\* C8: an unknown compiler and an unknown OS abort the run with a message
\* that names the requested name and lists every key of the map once in
\* ascending order; a requested processor no architecture matches aborts the
\* run with a message that names the processor and lists no choices
C8_UnknownTarget ==
    [][/\ UnknownCompilerAborts
       /\ UnknownOSAborts
       /\ UnknownProcessorAborts(NoChoices)]_vars

\* an unknown processor was reported although architectures are known, after
\* the compiler and the OS were found among more than one choice each
C8_Witness ==
    /\ pc = "aborted"
    /\ stderr # <<>>
    /\ stderr[1].kind = "Unknown or unidentifiable processor"
    /\ archinfo # <<>>
    /\ Len(ccinfo) > 1 /\ Len(osinfo) > 1

(***************************************************************************)
(* Properties of main: the order of the stages and the first fatal error   *)
(***************************************************************************)
Stages ==
    <<"start", "load", "check_compiler", "check_os", "resolve", "choose",
      "build", "compose", "templates", "done">>

StageOf(at) == CHOOSE i \in DOMAIN Stages : Stages[i] = at

\* the stage the run is at raises; the template stage raises when the
\* template it turns to has an unbound placeholder
StageRaises ==
    CASE pc = "start" -> argv.args # <<>>
      [] pc = "load" -> load_info_files(files).raised
      [] pc = "check_compiler" -> RequestedCompiler \notin Keys(ccinfo)
      [] pc = "check_os" -> options.os \notin Keys(osinfo)
      [] pc = "resolve" -> Unidentifiable
      [] pc = "compose" ->
            \/ options.arch \notin Keys(archinfo)
            \/ create_template_vars(build_config, options, modules_to_use,
                                    InfoGet(ccinfo, options.compiler),
                                    InfoGet(osinfo, options.os).basename).raised
      [] pc = "templates" ->
            \E t \in DOMAIN templates \ expanded :
               /\ process_template(t, templates[t], template_vars).raised
               /\ stderr' = <<process_template(t, templates[t], template_vars)>>
      [] OTHER -> FALSE

\* a step of a run: from a stage that has not ended the run, either on to
\* the next stage (the template stage staying until the last template) with
\* nothing reported, or to the end with one message when the stage raises
StageStep ==
    /\ pc \notin {"aborted", "done"}
    /\ \/ /\ pc' = "aborted"
          /\ StageRaises
          /\ Len(stderr') = 1
       \/ /\ pc' = Stages[StageOf(pc) + 1] \/ (pc = "templates" /\ pc' = pc)
          /\ pc # "templates" => ~StageRaises
          /\ stderr' = <<>>
    /\ expanded \subseteq expanded'
    /\ pc # "templates" => expanded' = {}

\* C9: the stages run in the fixed order; a stage that raises ends the run
\* with exactly one message reported and no later stage run; a run that has
\* not aborted has reported nothing; a run that is done has expanded every
\* template; every run ends
C9_AbortOnFirstError ==
    /\ [][StageStep]_vars
    /\ [](pc = "aborted" <=> Len(stderr) = 1)
    /\ [](pc # "aborted" => stderr = <<>>)
    /\ [](pc = "done" => expanded = DOMAIN templates)
    /\ <>(pc \in {"aborted", "done"})

\* a run that aborted in the template stage after it expanded a template
C9_Witness ==
    /\ pc = "aborted"
    /\ Len(stderr) = 1
    /\ stderr[1].kind = "Unbound var"
    /\ expanded # {}

\* a run that went through every stage and expanded every template
C9_WitnessDone == pc = "done" /\ stderr = <<>> /\ expanded = DOMAIN templates

(***************************************************************************)
(* The machine-optimization table of a compiler file                       *)
(***************************************************************************)
\* CompilerInfo(infofile) on its own: the object built from one file of
\* src/build-data/cc
ConstructCompiler ==
    /\ pc = "construct"
    /\ \E made \in {CompilerInfo(files[1])} :
          IF made.raised
          THEN /\ Abort(made)
               /\ UNCHANGED ccinfo
          ELSE /\ ccinfo' = <<made.value>>
               /\ pc' = "constructed"
               /\ UNCHANGED stderr
    /\ UNCHANGED <<options, given, to_obj, expanded, archinfo, osinfo, modules, derived>>

MaxRecords == 2

\* a record of the table as it is written: name, flags and a regex, the
\* empty regex standing for none
RecordNames == { <<"p", "4">>, <<"i">> }
RecordFlags == { <<"-", "a">>, Arrow }
RecordRegexes == { <<>>, <<"p">> }
Records == [name : RecordNames, flags : RecordFlags, regex : RecordRegexes]
RecordLists == UNION {[1..len -> Records] : len \in 0..MaxRecords}

\* the tokens of a record and of a list of records, in order
WriteRecord(record) ==
    <<record.name, Arrow, record.flags>>
    \o (IF record.regex = <<>> THEN <<>> ELSE <<record.regex>>)

RECURSIVE WriteRecords(_)
WriteRecords(records) ==
    IF records = <<>> THEN <<>>
    ELSE WriteRecord(records[1]) \o WriteRecords(Tail(records))

\* what may follow the last record: nothing, a name, a name and the
\* separator, a name and another token where the separator belongs
Endings ==
    {<<>>} \cup {<<name>> : name \in RecordNames}
    \cup {<<name, Arrow>> : name \in RecordNames}
    \cup {<<name, <<"p">>>> : name \in RecordNames}

S_open_mach_opt == <<"<", "m", "a", "c", "h", "_", "o", "p", "t", ">">>
S_close_mach_opt == <<"<", "/", "m", "a", "c", "h", "_", "o", "p", "t", ">">>

CompilerFile(records, ending) ==
    [kind |-> "cc", dirname |-> FileCc.dirname, basename |-> Gcc,
     tokens |-> <<S_open_mach_opt>> \o WriteRecords(records) \o ending
                \o <<S_close_mach_opt>>,
     records |-> records, ending |-> ending]

InitMachOpt ==
    /\ pc = "construct"
    /\ files \in {<<CompilerFile(records, ending)>> :
                    records \in RecordLists, ending \in Endings}
    /\ options = NoOptions
    /\ argv = [compiler |-> None, os |-> None, cpu |-> None]
    /\ platform = NoPlatform
    /\ templates = <<>>
    /\ archinfo = <<>> /\ ccinfo = <<>> /\ osinfo = <<>> /\ modules = <<>>
    /\ NothingDerived
    /\ stderr = <<>>

SpecMachOpt == InitMachOpt /\ [][ConstructCompiler]_vars

\* the records a file was written from and what follows them
Written == files[1].records
Ending == files[1].ending

\* the records have distinct names and none of their tokens is the separator
WellWritten(records) ==
    /\ \A i, j \in DOMAIN records : i # j => records[i].name # records[j].name
    /\ \A i \in DOMAIN records :
          /\ records[i].name # Arrow
          /\ records[i].flags # Arrow
          /\ records[i].regex # Arrow

\* the parsed table is exactly the map name -> (flags, regex) of the records
ParsedAs(records) ==
    /\ pc = "constructed"
    /\ stderr = <<>>
    /\ Len(ccinfo[1].mach_opt_flags) = Len(records)
    /\ SetOf(ccinfo[1].mach_opt_flags)
          = {<<records[i].name, <<records[i].flags, records[i].regex>> >> :
                i \in DOMAIN records}

\* the construction failed and left no table
ParseFailed == pc = "aborted" /\ Len(stderr) = 1 /\ ccinfo = <<>>

\* the last record was written without a regex, so that one more token is
\* read as its regex
LastOpen(records) == records # <<>> /\ records[Len(records)].regex = <<>>

\* C11: records with distinct names and no separator among their tokens,
\* written out in order, parse to exactly the map name -> (flags, regex);
\* a list that goes on with a name and the separator, or with a name where
\* the token before is not taken as a regex, or with another token where
\* the separator belongs, fails and leaves no table; a single token after a
\* record written without a regex is the last token and is read as that
\* record's regex
C11_MachOptParsing ==
    pc # "construct" /\ WellWritten(Written) =>
       /\ Ending = <<>> => ParsedAs(Written)
       /\ Len(Ending) = 2 => ParseFailed
       /\ Len(Ending) = 1 /\ ~LastOpen(Written) => ParseFailed
       /\ Len(Ending) = 1 /\ LastOpen(Written)
             => ParsedAs([Written EXCEPT ![Len(Written)].regex = Ending[1]])

\* two records were parsed, the first written with a regex and the second
\* without one
C11_Witness ==
    /\ pc = "constructed"
    /\ Ending = <<>>
    /\ WellWritten(Written)
    /\ Len(Written) = 2
    /\ Written[1].regex # <<>>
    /\ Written[2].regex = <<>>
    /\ Len(ccinfo[1].mach_opt_flags) = 2

\* a list that ends after the separator of its second record was rejected
C11_WitnessTruncated ==
    /\ pc = "aborted"
    /\ WellWritten(Written)
    /\ Len(Written) = 1
    /\ Len(Ending) = 2 /\ Ending[2] = Arrow

(***************************************************************************)
(* The stride-3 tables of a module file                                    *)
(***************************************************************************)
\* ModuleInfo(infofile) on its own: the object built from one info.txt
ConstructModule ==
    /\ pc = "construct"
    /\ \E made \in {ModuleInfo(files[1])} :
          IF made.raised
          THEN /\ Abort(made)
               /\ UNCHANGED modules
          ELSE /\ modules' = <<made.value>>
               /\ pc' = "constructed"
               /\ UNCHANGED stderr
    /\ UNCHANGED <<options, given, to_obj, expanded, archinfo, ccinfo, osinfo, derived>>

MaxLibTokens == 4

LibTokenPool == { <<"l", "i", "n", "u", "x">>, Arrow, <<"m">> }
LibTokenLists == UNION {[1..len -> LibTokenPool] : len \in 0..MaxLibTokens}

ModuleFile(libs) ==
    [kind |-> "module", dirname |-> FileModA.dirname, basename |-> S_info_txt,
     tokens |-> <<<<"<", "l", "i", "b", "s", ">">>>> \o libs \o <<<<"<", "/", "l", "i", "b", "s", ">">>>>,
     libs |-> libs]

InitCoerce ==
    /\ pc = "construct"
    /\ files \in {<<ModuleFile(libs)>> : libs \in LibTokenLists}
    /\ options = NoOptions
    /\ argv = [compiler |-> None, os |-> None, cpu |-> None]
    /\ platform = NoPlatform
    /\ templates = <<>>
    /\ archinfo = <<>> /\ ccinfo = <<>> /\ osinfo = <<>> /\ modules = <<>>
    /\ NothingDerived
    /\ stderr = <<>>

SpecCoerce == InitCoerce /\ [][ConstructModule]_vars

\* C12: a module is constructed, with a map for its libs group, only from a
\* token list whose length is a multiple of three; any other length is a
\* failure that leaves no map
C12_CoercionRejects ==
    pc = "constructed" => Len(files[1].libs) % 3 = 0

(***************************************************************************)
(* Properties of main: the architecture the resolution returns             *)
(***************************************************************************)
\* the lookup archinfo[options.arch] of the call of create_template_vars
\* failed
ArchLookupFailed ==
    /\ pc = "aborted"
    /\ stderr # <<>>
    /\ stderr[1].kind = "KeyError"
    /\ stderr[1].subject = options.arch

\* C13: once the processor resolution has returned, by canon_processor or by
\* guess_processor, the architecture of the result is the canonical name of
\* a loaded architecture, and the run does not fail in the lookup of that
\* architecture
C13_ArchitectureLoaded ==
    /\ pc \in {"choose", "build", "compose", "templates", "done"}
          => options.arch \in Keys(archinfo)
    /\ ~ArchLookupFailed

====
